---- MODULE Spec2Model ----
(***************************************************************************)
(* A model of the meal tracker: the JSON-file store (storage.py), the meal *)
(* record (models.py), the analyzer (analyzer.py), the recommender         *)
(* (recommender.py) and the menu shell (cli.py).                           *)
(*                                                                         *)
(* Conventions of the model                                                *)
(*  - Japanese string literals of the source are written in ASCII:         *)
(*      tags        healthy / high_protein / veggie / low_cal              *)
(*      statuses    sufficient / slightlyLacking / lacking                 *)
(*      categories  washoku / yoshoku / chuka / italian / ethnic           *)
(*  - Optional[...] is a sequence of length 0 (None) or 1.                 *)
(*  - A point in time is an integer number of ticks, DayTicks per day; its *)
(*    ISO-8601 text is the pair <<day, tick within the day>>.              *)
(*  - A float ratio p/q is compared by cross-multiplication; the fixed     *)
(*    ideal ratios are kept in percent.                                    *)
(***************************************************************************)
EXTENDS Integers, Sequences, FiniteSets, TLC

VARIABLES
    file,     \* content of data/meals.json
    pc,       \* position of MealTrackerCLI.run: "menu", "exited", "crashed"
    out,      \* the last notice the shell printed
    ret,      \* outcome of the last store operation
    issued,   \* ids handed out so far (uuid4 values that exist)
    now,      \* the wall clock, in ticks
    meals,    \* self.meals of the analyzer / recommender under study
    result    \* value returned by the last analyzer / recommender call

vars == <<file, pc, out, ret, issued, now, meals, result>>

(***************************************************************************)
(* Bounds of the model.                                                    *)
(***************************************************************************)
MaxIds == 2
MaxMeals == 2
MaxClock == 1

Ids == 1..MaxIds

(***************************************************************************)
(* Time: datetime.now(), isoformat(), fromisoformat(), timedelta(days=n).  *)
(***************************************************************************)
DayTicks == 2

isoformat(t) == <<t \div DayTicks, t % DayTicks>>

fromisoformat(s) == s[1] * DayTicks + s[2]

timedelta(days) == days * DayTicks

(***************************************************************************)
(* models.py: Meal.                                                        *)
(***************************************************************************)
FieldNames ==
    {"id", "datetime", "meal_type", "menu_items", "categories", "tags",
     "calories", "notes"}

\* the fields of the dataclass that have no default value
RequiredFields ==
    {"id", "datetime", "meal_type", "menu_items", "categories", "tags"}

None == <<>>

Meal(id, datetime, meal_type, menu_items, categories, tags, calories, notes) ==
    [id |-> id, datetime |-> datetime, meal_type |-> meal_type,
     menu_items |-> menu_items, categories |-> categories, tags |-> tags,
     calories |-> calories, notes |-> notes]

\* Meal.create_new: a fresh uuid4 (the caller supplies one not yet issued),
\* the current time as ISO text, tags or [].
create_new(id, t, meal_type, menu_items, categories, tags, calories, notes) ==
    Meal(id, isoformat(t), meal_type, menu_items, categories,
         IF tags = None THEN <<>> ELSE tags, calories, notes)

\* Meal.to_dict: asdict(self), a JSON object with all eight keys.
to_dict(meal) == [isobj |-> TRUE, keys |-> FieldNames, rec |-> meal]

\* Meal.from_dict: cls(**data).  data must be a mapping whose keys are field
\* names and include every field without a default; a missing calories or
\* notes takes its default None.  Anything else raises TypeError.
from_dict_ok(data) ==
    /\ data.isobj
    /\ data.keys \subseteq FieldNames
    /\ RequiredFields \subseteq data.keys

from_dict(data) ==
    [data.rec EXCEPT
        !.calories = IF "calories" \in data.keys THEN @ ELSE None,
        !.notes = IF "notes" \in data.keys THEN @ ELSE None]

(***************************************************************************)
(* The data file.  kind is                                                 *)
(*   "missing"  no such file                                               *)
(*   "invalid"  text that is not JSON (an empty or cut-off file too)       *)
(*   "scalar"   JSON null, true, false or a number                         *)
(*   "string"   a JSON string; elems are its characters                    *)
(*   "object"   a JSON object; elems are its keys                          *)
(*   "array"    a JSON array; elems are its elements                       *)
(* An element is a JSON object (isobj, with its key set and the values of  *)
(* the Meal fields among them) or some other JSON value.                   *)
(***************************************************************************)
FileOf(kind, elems) == [kind |-> kind, elems |-> elems]

\* json.dump([meal.to_dict() for meal in meals], f)
serialize(ms) == FileOf("array", [i \in 1..Len(ms) |-> to_dict(ms[i])])

EmptyFile == FileOf("array", <<>>)

\* MealStorage.load_all_meals: exc is "none" when a list is returned,
\* otherwise the exception that leaves the method.
load_all_meals(f) ==
    IF f.kind \in {"missing", "invalid"}
    THEN \* except (FileNotFoundError, json.JSONDecodeError): return []
         [exc |-> "none", meals |-> <<>>]
    ELSE IF f.kind = "scalar"
            \/ \E i \in 1..Len(f.elems) : ~from_dict_ok(f.elems[i])
    THEN \* iterating a non-iterable, or cls(**data) on a bad element
         [exc |-> "TypeError", meals |-> <<>>]
    ELSE [exc |-> "none",
          meals |-> [i \in 1..Len(f.elems) |-> from_dict(f.elems[i])]]

(***************************************************************************)
(* MealStorage._write_meals.  open(..., 'w') truncates the file before     *)
(* anything is written, so a write ends in one of three ways:              *)
(*   "ok"           the whole collection was written                       *)
(*   "open_failed"  open() raised; the file is as it was                   *)
(*   "partial"      open() succeeded and the dump or the close raised; the  *)
(*                  file holds a cut-off text                              *)
(***************************************************************************)
WriteOutcomes == {"ok", "open_failed", "partial"}

write_meals(f, ms, w) ==
    CASE w = "ok" -> [file |-> serialize(ms), exc |-> "none"]
      [] w = "open_failed" -> [file |-> f, exc |-> "OSError"]
      [] OTHER -> [file |-> FileOf("invalid", <<>>), exc |-> "OSError"]

\* The exceptions the model raises; both are subclasses of Exception.
IsException(exc) == exc \in {"TypeError", "OSError"}

\* StoreOp with the failure swallowed: True is returned whatever happened.
StoreOpSwallow(f, l, changed, w) ==
    LET wr == IF l.exc # "none"
              THEN [file |-> f, exc |-> l.exc]
              ELSE write_meals(f, changed, w)
    IN  [file |-> wr.file,
         value |-> "True",
         outcome |-> IF l.exc # "none" THEN "none" ELSE w,
         attempt |-> IF l.exc # "none" THEN <<>> ELSE changed]

\* try: <load, change, _write_meals>; return True
\* except Exception as e: print(...); return False
\* l is what load_all_meals gave, changed the list handed to _write_meals.
\* value is "True", "False" or "raised" (an exception left the method);
\* outcome is how the write ended, "none" when it was never started.
StoreOp(f, l, changed, w) ==
    LET wr == IF l.exc # "none"
              THEN [file |-> f, exc |-> l.exc]
              ELSE write_meals(f, changed, w)
    IN  [file |-> wr.file,
         value |-> IF wr.exc = "none" THEN "True"
                   ELSE IF IsException(wr.exc) THEN "False" ELSE "raised",
         outcome |-> IF l.exc # "none" THEN "none" ELSE w,
         attempt |-> IF l.exc # "none" THEN <<>> ELSE changed]

\* save_meal putting the new record first instead of last
save_meal_prepend(f, meal, w) ==
    LET l == load_all_meals(f)
    IN  StoreOp(f, l, <<meal>> \o l.meals, w)

save_meal(f, meal, w) ==
    LET l == load_all_meals(f)
    IN  StoreOp(f, l, Append(l.meals, meal), w)

\* update_meal that adds the record when no stored record has its id
update_meal_upsert(f, meal, w) ==
    LET l == load_all_meals(f)
    IN  StoreOp(f, l,
                IF \E i \in 1..Len(l.meals) : l.meals[i].id = meal.id
                THEN [i \in 1..Len(l.meals) |->
                         IF l.meals[i].id = meal.id THEN meal ELSE l.meals[i]]
                ELSE Append(l.meals, meal), w)

update_meal(f, meal, w) ==
    LET l == load_all_meals(f)
    IN  StoreOp(f, l,
                [i \in 1..Len(l.meals) |->
                    IF l.meals[i].id = meal.id THEN meal ELSE l.meals[i]], w)

delete_meal(f, meal_id, w) ==
    LET l == load_all_meals(f)
    IN  StoreOp(f, l, SelectSeq(l.meals, LAMBDA m : m.id # meal_id), w)


(***************************************************************************)
(* What the store holds, as load_all_meals reports it.                     *)
(***************************************************************************)
Persisted == load_all_meals(file).meals

NoRet == [op |-> "none", by |-> "none", value |-> "none", outcome |-> "none",
          attempt |-> <<>>, meal |-> <<>>]

RetOf(op, by, r, m) ==
    [op |-> op, by |-> by, value |-> r.value, outcome |-> r.outcome,
     attempt |-> r.attempt, meal |-> m]

(***************************************************************************)
(* Direct calls of the store API by a client of MealStorage.               *)
(***************************************************************************)
ClientMeal(id, variant) ==
    IF variant = 1
    THEN Meal(id, isoformat(now), "dinner", <<"pasta">>, <<"yoshoku">>,
              <<>>, None, None)
    ELSE Meal(id, isoformat(now), "lunch", <<"gohan", "gohan">>,
              <<"washoku">>, <<"healthy">>, <<500>>, <<"memo">>)

ClientMeals == {ClientMeal(id, v) : id \in Ids, v \in {1, 2}}

SaveMeal(meal, w) ==
    /\ Len(Persisted) < MaxMeals
    /\ LET r == save_meal(file, meal, w)
       IN  /\ file' = r.file
           /\ ret' = RetOf("save", "client", r, <<meal>>)
    /\ issued' = issued \cup {meal.id}
    /\ UNCHANGED <<pc, out, now, meals, result>>

UpdateMeal(meal, w) ==
    /\ LET r == update_meal(file, meal, w)
       IN  /\ file' = r.file
           /\ ret' = RetOf("update", "client", r, <<meal>>)
    /\ issued' = issued \cup {meal.id}
    /\ UNCHANGED <<pc, out, now, meals, result>>

DeleteMeal(meal_id, w) ==
    /\ LET r == delete_meal(file, meal_id, w)
       IN  /\ file' = r.file
           /\ ret' = RetOf("delete", "client", r, <<>>)
    /\ UNCHANGED <<pc, out, issued, now, meals, result>>

(***************************************************************************)
(* cli.py: MealTrackerCLI.  A line the user types is the sequence of its   *)
(* comma-separated pieces, stripped; the empty line is <<"">>, as          *)
(* "".split(",") is [""].                                                  *)
(***************************************************************************)
meal_type_map(choice) ==
    CASE choice = "1" -> "breakfast"
      [] choice = "2" -> "lunch"
      [] choice = "3" -> "dinner"
      [] choice = "4" -> "snack"
      [] OTHER -> "lunch"

\* the answers to the prompts of add_meal
ShellInputs ==
    {[choice |-> "1", menu |-> <<"gohan", "misoshiru">>,
      cats |-> <<"washoku">>, tags |-> <<"healthy">>, cal |-> <<450>>,
      notes |-> <<"asa">>],
     [choice |-> "", menu |-> <<"">>, cats |-> <<"">>, tags |-> <<"">>,
      cal |-> None, notes |-> None]}

\* add_meal up to the call of save_meal
NewMeal(id, in) ==
    create_new(id, now, meal_type_map(in.choice), in.menu, in.cats,
               IF in.tags = <<"">> THEN <<>> ELSE in.tags, in.cal, in.notes)

\* choice "1": add_meal, then back to the menu
AddMeal(id, in, w) ==
    /\ pc = "menu"
    /\ id \notin issued
    /\ Len(Persisted) < MaxMeals
    /\ LET meal == NewMeal(id, in)
           r == save_meal(file, meal, w)
       IN  /\ file' = r.file
           /\ ret' = RetOf("save", "shell", r, <<meal>>)
           /\ out' = IF r.value = "True" THEN "saved"
                     ELSE IF r.value = "False" THEN "save_failed"
                     ELSE "traceback"
           /\ pc' = IF r.value = "raised" THEN "crashed" ELSE "menu"
    /\ issued' = issued \cup {id}
    /\ UNCHANGED <<now, meals, result>>

\* a handler that only reads the store: an exception out of load_all_meals
\* is caught nowhere and ends the program
ReadOnly(shown) ==
    /\ pc = "menu"
    /\ LET l == load_all_meals(file)
       IN  /\ out' = IF l.exc # "none" THEN "traceback"
                     ELSE IF l.meals = <<>> THEN shown[1] ELSE shown[2]
           /\ pc' = IF l.exc # "none" THEN "crashed" ELSE "menu"
    /\ ret' = NoRet
    /\ UNCHANGED <<file, issued, now, meals, result>>

\* choice "2": view_recent_meals
ViewRecentMeals == ReadOnly(<<"no_records", "listed">>)

\* choice "3": analyze_trends
AnalyzeTrends == ReadOnly(<<"no_records", "stats">>)

\* choice "4": recommend_meal
RecommendMeal == ReadOnly(<<"recommendation", "recommendation">>)

\* choice "5": sys.exit(0)
Exit ==
    /\ pc = "menu"
    /\ pc' = "exited"
    /\ out' = "goodbye"
    /\ ret' = NoRet
    /\ UNCHANGED <<file, issued, now, meals, result>>

\* any other choice
InvalidChoice ==
    /\ pc = "menu"
    /\ out' = "invalid_choice"
    /\ pc' = "menu"
    /\ ret' = NoRet
    /\ UNCHANGED <<file, issued, now, meals, result>>

\* time passes while the shell waits for input
Tick ==
    /\ now < MaxClock
    /\ now' = now + 1
    /\ UNCHANGED <<file, pc, out, ret, issued, meals, result>>

NoResult == [op |-> "none"]

\* MealStorage.__init__ on first use: _ensure_data_directory writes "[]"
Init ==
    /\ file = EmptyFile
    /\ pc = "menu"
    /\ out = "none"
    /\ ret = NoRet
    /\ issued = {}
    /\ now = 0
    /\ meals = <<>>
    /\ result = NoResult

ShellNext ==
    \/ \E id \in Ids, in \in ShellInputs, w \in WriteOutcomes : AddMeal(id, in, w)
    \/ ViewRecentMeals
    \/ AnalyzeTrends
    \/ RecommendMeal
    \/ Exit
    \/ InvalidChoice
    \/ Tick

ClientNext ==
    \/ \E m \in ClientMeals, w \in WriteOutcomes : SaveMeal(m, w)
    \/ \E m \in ClientMeals, w \in WriteOutcomes : UpdateMeal(m, w)
    \/ \E id \in Ids, w \in WriteOutcomes : DeleteMeal(id, w)

\* the store under its callers: direct API calls and the shell's add_meal
StoreNext ==
    \/ ClientNext
    \/ \E id \in Ids, in \in ShellInputs, w \in WriteOutcomes : AddMeal(id, in, w)

Spec == Init /\ [][StoreNext]_vars

\* the default flow: the shell alone
SpecShell == Init /\ [][ShellNext]_vars


(***************************************************************************)
(* load_all_meals as a function of the file's content: every content a     *)
(* data file can have, up to MaxElems elements.                            *)
(***************************************************************************)
MaxElems == 2

SomeMeals ==
    {Meal(1, isoformat(0), "lunch", <<"gohan">>, <<"washoku">>, <<>>,
          None, None),
     Meal(2, isoformat(1), "dinner", <<"pasta">>, <<"yoshoku">>,
          <<"healthy">>, <<600>>, <<"memo">>)}

NotAnObject == [isobj |-> FALSE, keys |-> {}, rec |-> CHOOSE m \in SomeMeals : TRUE]

KeySets ==
    {FieldNames, RequiredFields, FieldNames \ {"id"}, FieldNames \cup {"extra"}}

Elements ==
    {NotAnObject}
        \cup {[isobj |-> TRUE, keys |-> k, rec |-> m] : k \in KeySets, m \in SomeMeals}

FileContents ==
    {FileOf(k, <<>>) : k \in {"missing", "invalid", "scalar", "string", "object"}}
        \cup {FileOf(k, <<NotAnObject>>) : k \in {"string", "object"}}
        \cup UNION {{FileOf("array", e) : e \in [1..n -> Elements]} : n \in 0..MaxElems}

InitLoad ==
    /\ file \in FileContents
    /\ pc = "menu"
    /\ out = "none"
    /\ ret = NoRet
    /\ issued = {}
    /\ now = 0
    /\ meals = <<>>
    /\ result = NoResult

LoadAllMeals ==
    /\ result.op = "none"
    /\ LET l == load_all_meals(file)
       IN  result' = [op |-> "load", exc |-> l.exc, meals |-> l.meals]
    /\ UNCHANGED <<file, pc, out, ret, issued, now, meals>>

SpecLoad == InitLoad /\ [][LoadAllMeals]_vars

(***************************************************************************)
(* Claims about the store and the shell.                                   *)
(***************************************************************************)

\* C1: after any sequence of save, update and delete from an empty store, no
\* two persisted records have the same id (also when save is given a record
\* whose id is already present).
C1_IdUnique ==
    \A i, j \in 1..Len(Persisted) :
        i # j => Persisted[i].id # Persisted[j].id

\* C2 as stated: in the default flow every step leaves the persisted
\* sequence as it was or appends exactly one record at its end.
C2_AppendOnly ==
    [][\/ Persisted' = Persisted
       \/ \E m \in {Persisted'[i] : i \in 1..Len(Persisted')} :
              Persisted' = Append(Persisted, m)]_vars

\* C2 as amended: in the default flow the data file changes only in an
\* add-record action.  An add whose write completes leaves the persisted
\* sequence equal to the one before it with the new record appended at the
\* end; an add whose write fails after the file was opened leaves the file
\* unreadable and the persisted sequence empty.
C2_AppendOrCutOff ==
    [][\/ file' = file
       \/ /\ ret'.op = "save"
          /\ ret'.by = "shell"
          /\ ret'.value = "True"
          /\ Persisted' = Append(Persisted, ret'.meal[1])
       \/ /\ ret'.op = "save"
          /\ ret'.by = "shell"
          /\ ret'.value = "False"
          /\ ret'.outcome = "partial"
          /\ file'.kind = "invalid"
          /\ Persisted' = <<>>]_vars

\* an add has appended to a store that already held a record
C2_Witness ==
    /\ ret.op = "save"
    /\ ret.by = "shell"
    /\ ret.value = "True"
    /\ Len(Persisted) >= 2
    /\ Persisted[Len(Persisted)] = ret.meal[1]

\* the claim counts a file as corrupt when it is not JSON or not a list of
\* objects carrying the MealRecord fields (an object that leaves out the
\* optional calories or notes is taken as carrying them)
IsMealObject(e) ==
    e.isobj /\ e.keys \subseteq FieldNames /\ RequiredFields \subseteq e.keys

Unreadable(f) ==
    \/ f.kind \in {"missing", "invalid"}
    \/ f.kind # "array"
    \/ \E i \in 1..Len(f.elems) : ~IsMealObject(f.elems[i])

\* C3: whenever the data file is missing or corrupt, load_all_meals surfaces
\* no error and returns the empty sequence.
C3_ReadFailureGivesEmpty ==
    (result.op = "load" /\ Unreadable(file))
        => (result.exc = "none" /\ result.meals = <<>>)

\* C4: a write failure in save, update or delete is returned as False and
\* never raised; True is returned exactly when the whole collection was
\* rewritten; after a False from save the shell prints the failure notice
\* and is back at the menu, the record not saved by a second attempt.
C4_WriteFailureIsFalse ==
    ret.op \in {"save", "update", "delete"} =>
        /\ ret.value \in {"True", "False"}
        /\ ret.outcome \in {"open_failed", "partial"} => ret.value = "False"
        /\ ret.value = "True"
               <=> (ret.outcome = "ok" /\ file = serialize(ret.attempt))
        /\ (ret.by = "shell" /\ ret.value = "False") =>
               /\ out = "save_failed"
               /\ pc = "menu"
               /\ \A i \in 1..Len(Persisted) : Persisted[i] # ret.meal[1]
        /\ (ret.by = "shell" /\ ret.value = "True") => out = "saved"

\* the shell's save failed part-way with a record already in the store
C4_Witness ==
    /\ ret.op = "save"
    /\ ret.by = "shell"
    /\ ret.outcome = "partial"
    /\ ret.value = "False"
    /\ Len(ret.attempt) = 2
    /\ out = "save_failed"


(***************************************************************************)
(* analyzer.py: MealAnalyzer.                                              *)
(***************************************************************************)
Min(a, b) == IF a < b THEN a ELSE b

RECURSIVE Extend(_, _, _)
\* all_x = []; for meal in ms: all_x.extend(meal.<field>)
Extend(ms, field, i) ==
    IF i > Len(ms) THEN <<>>
    ELSE ms[i][field] \o Extend(ms, field, i + 1)

\* number of occurrences of x in the list xs
CountIn(x, xs) == Cardinality({i \in 1..Len(xs) : xs[i] = x})

\* Counter(xs): the keys in the order they were first met, each with its count
Counter(xs) ==
    LET firsts == SelectSeq([i \in 1..Len(xs) |-> i],
                            LAMBDA i : \A j \in 1..(i - 1) : xs[j] # xs[i])
    IN  [k \in 1..Len(firsts) |-> <<xs[firsts[k]], CountIn(xs[firsts[k]], xs)>>]

Remove(xs, i) == SubSeq(xs, 1, i - 1) \o SubSeq(xs, i + 1, Len(xs))

RECURSIVE SortedByCountUnstable(_)
\* a sort by decreasing count that puts the last of equal counts first
SortedByCountUnstable(pairs) ==
    IF pairs = <<>> THEN <<>>
    ELSE LET best == CHOOSE i \in 1..Len(pairs) :
                        /\ \A j \in 1..Len(pairs) : pairs[j][2] <= pairs[i][2]
                        /\ \A j \in (i + 1)..Len(pairs) : pairs[j][2] < pairs[i][2]
         IN  <<pairs[best]>> \o SortedByCountUnstable(Remove(pairs, best))

RECURSIVE SortedByCount(_)
\* sorted(pairs, key=itemgetter(1), reverse=True): stable, so equal counts
\* keep the order they have in pairs
SortedByCount(pairs) ==
    IF pairs = <<>> THEN <<>>
    ELSE LET best == CHOOSE i \in 1..Len(pairs) :
                        /\ \A j \in 1..Len(pairs) : pairs[j][2] <= pairs[i][2]
                        /\ \A j \in 1..(i - 1) : pairs[j][2] < pairs[i][2]
         IN  <<pairs[best]>> \o SortedByCount(Remove(pairs, best))

\* Counter.most_common(n) = heapq.nlargest(n, items, key=count), which is
\* sorted(items, key=count, reverse=True)[:n] for n >= 0
most_common(counter, n) ==
    SubSeq(SortedByCount(counter), 1, Min(n, Len(counter)))

get_favorite_items(ms, limit) ==
    most_common(Counter(Extend(ms, "menu_items", 1)), limit)

\* dict(Counter(all_categories)), in insertion order
get_category_distribution(ms) == Counter(Extend(ms, "categories", 1))

\* a float p / q is kept as the pair <<p, q>>; 0.0 is <<0, 1>>
get_variety_score_per_meal(ms) ==
    IF ms = <<>> THEN <<0, 1>>
    ELSE LET all_items == Extend(ms, "menu_items", 1)
             unique_items == Cardinality({all_items[i] : i \in 1..Len(all_items)})
         IN  IF Len(all_items) = 0 THEN <<0, 1>>
             ELSE <<unique_items, Len(ms)>>

get_variety_score(ms) ==
    IF ms = <<>> THEN <<0, 1>>
    ELSE LET all_items == Extend(ms, "menu_items", 1)
             unique_items == Cardinality({all_items[i] : i \in 1..Len(all_items)})
             total_items == Len(all_items)
         IN  IF total_items = 0 THEN <<0, 1>>
             ELSE <<unique_items, total_items>>

\* get_missing_categories with the cutoff excluded from the recent window
get_missing_categories_strict(ms, t, recent_days) ==
    LET all_categories == UNION {{ms[i].categories[j] : j \in 1..Len(ms[i].categories)} :
                                    i \in 1..Len(ms)}
        cutoff_date == t - timedelta(recent_days)
        recent_categories ==
            UNION {{ms[i].categories[j] : j \in 1..Len(ms[i].categories)} :
                      i \in {k \in 1..Len(ms) :
                                fromisoformat(ms[k].datetime) > cutoff_date}}
    IN  all_categories \ recent_categories

\* the returned list holds the elements of a set, in no promised order: the
\* value is that set
get_missing_categories(ms, t, recent_days) ==
    LET all_categories == UNION {{ms[i].categories[j] : j \in 1..Len(ms[i].categories)} :
                                    i \in 1..Len(ms)}
        cutoff_date == t - timedelta(recent_days)
        recent_categories ==
            UNION {{ms[i].categories[j] : j \in 1..Len(ms[i].categories)} :
                      i \in {k \in 1..Len(ms) :
                                fromisoformat(ms[k].datetime) >= cutoff_date}}
    IN  all_categories \ recent_categories

\* the ideal ratios 0.3, 0.25, 0.4, 0.2 in percent
nutrition_tags ==
    [healthy |-> 30, high_protein |-> 25, veggie |-> 40, low_cal |-> 20]

RecentWindow == 14

\* ms[-14:] if len(ms) >= 14 else ms
LastMeals(ms, n) == IF Len(ms) >= n THEN SubSeq(ms, Len(ms) - n + 1, Len(ms)) ELSE ms

\* the status of one tag met freq times in total_meals meals:
\* freq / total_meals >= ideal, >= ideal * 0.5, or neither
BalanceOf(freq, total_meals, ideal) ==
    IF freq = 0 THEN "lacking"
    ELSE IF 100 * freq >= ideal * total_meals THEN "sufficient"
    ELSE IF 200 * freq >= ideal * total_meals THEN "slightlyLacking"
    ELSE "lacking"

\* get_nutrition_balance_status over the whole history
get_nutrition_balance_status_all(ms) ==
    LET tags == Extend(ms, "tags", 1)
    IN  [tag \in DOMAIN nutrition_tags |->
            BalanceOf(CountIn(tag, tags), Len(ms), nutrition_tags[tag])]

get_nutrition_balance_status(ms) ==
    LET recent_meals == LastMeals(ms, RecentWindow)
        tags == Extend(recent_meals, "tags", 1)
        total_meals == Len(recent_meals)
    IN  [tag \in DOMAIN nutrition_tags |->
            BalanceOf(CountIn(tag, tags), total_meals, nutrition_tags[tag])]


(***************************************************************************)
(* The analyzer's functions applied to bounded histories.                  *)
(***************************************************************************)
Histories(S, n) == UNION {[1..k -> S] : k \in 0..n}

InitAnalyzer(hs, ts) ==
    /\ meals \in hs
    /\ now \in ts
    /\ result = NoResult
    /\ file = EmptyFile
    /\ pc = "menu"
    /\ out = "none"
    /\ ret = NoRet
    /\ issued = {}

Apply(r) ==
    /\ result.op = "none"
    /\ result' = r
    /\ UNCHANGED <<file, pc, out, ret, issued, now, meals>>

\* histories that differ in their menu items
MaxItemHistory == 3
MaxLimit == 3

ItemLists ==
    {<<>>, <<"gohan">>, <<"pasta">>, <<"gohan", "pasta">>,
     <<"pasta", "ramen", "pasta">>, <<"ramen">>}

ItemMeals ==
    {Meal(1, isoformat(0), "lunch", items, <<"washoku">>, <<>>, None, None) :
        items \in ItemLists}

GetFavoriteItems(limit) ==
    Apply([op |-> "favorite", limit |-> limit,
           value |-> get_favorite_items(meals, limit)])

GetVarietyScore ==
    Apply([op |-> "variety", value |-> get_variety_score(meals)])

ItemsNext ==
    \/ \E limit \in 0..MaxLimit : GetFavoriteItems(limit)
    \/ GetVarietyScore

SpecItems ==
    InitAnalyzer(Histories(ItemMeals, MaxItemHistory), {0}) /\ [][ItemsNext]_vars

\* histories that differ in their times and categories
MaxCatHistory == 2
MaxTime == 3

CategoryLists == {<<>>, <<"washoku">>, <<"yoshoku", "washoku">>}

CategoryMeals ==
    {Meal(1, isoformat(t), "lunch", <<"gohan">>, cats, <<>>, None, None) :
        t \in 0..MaxTime, cats \in CategoryLists}

RecentDays == {0, 1, 7}

GetMissingCategories(recent_days) ==
    Apply([op |-> "missing", recent_days |-> recent_days,
           value |-> get_missing_categories(meals, now, recent_days)])

MissingNext == \E d \in RecentDays : GetMissingCategories(d)

SpecMissing ==
    InitAnalyzer(Histories(CategoryMeals, MaxCatHistory), 2..MaxTime)
        /\ [][MissingNext]_vars

\* histories that differ in their tags: none or one record with any of the
\* tag lists, then records that carry all four nutrition tags or none
MaxTagHistory == 15

AllFourTags == <<"healthy", "high_protein", "veggie", "low_cal">>

TagLists == {<<>>, AllFourTags, <<"healthy">>, <<"veggie", "spicy", "veggie">>}

TagMeal(tags) ==
    Meal(1, isoformat(0), "lunch", <<"gohan">>, <<"washoku">>, tags, None, None)

\* the shell's add followed by its analysis of the grown history
AddAndAnalyze(tags) ==
    /\ Len(meals) < MaxTagHistory
    /\ meals' = Append(meals, TagMeal(tags))
    /\ result' = [op |-> "balance",
                  value |-> get_nutrition_balance_status(meals')]
    /\ UNCHANGED <<file, pc, out, ret, issued, now>>

InitNutrition ==
    /\ meals \in Histories({TagMeal(tags) : tags \in TagLists}, 1)
    /\ result = [op |-> "balance", value |-> get_nutrition_balance_status(meals)]
    /\ now = 0
    /\ file = EmptyFile
    /\ pc = "menu"
    /\ out = "none"
    /\ ret = NoRet
    /\ issued = {}

NutritionNext == \E tags \in {<<>>, AllFourTags} : AddAndAnalyze(tags)

SpecNutrition == InitNutrition /\ [][NutritionNext]_vars

(***************************************************************************)
(* Claims about the analyzer.                                              *)
(***************************************************************************)

\* the places <<i, j>> of the entries of a list field over the records ms
Places(ms, field) ==
    UNION {{<<i, j>> : j \in 1..Len(ms[i][field])} : i \in 1..Len(ms)}

Occurrences(ms, field, x) ==
    Cardinality({p \in Places(ms, field) : ms[p[1]][field][p[2]] = x})

ValuesOf(ms, field) == {ms[p[1]][field][p[2]] : p \in Places(ms, field)}

\* C5: nutritionBalanceStatus maps exactly the four fixed tags; with w =
\* min(14, N) and c the occurrences of the tag in the last w records, the
\* status is sufficient if c/w >= ideal, slightlyLacking if ideal/2 <= c/w
\* < ideal, lacking otherwise, and lacking whenever c = 0.
C5_NutritionBalance ==
    result.op = "balance" =>
        LET n == Len(meals)
            w == IF n < 14 THEN n ELSE 14
            window == [i \in 1..w |-> meals[n - w + i]]
            ideal == [healthy |-> 30, high_protein |-> 25, veggie |-> 40,
                      low_cal |-> 20]
        IN  /\ DOMAIN result.value = {"healthy", "high_protein", "veggie", "low_cal"}
            /\ \A tag \in DOMAIN result.value :
                  LET c == Occurrences(window, "tags", tag)
                  IN  /\ (c > 0 /\ 100 * c >= ideal[tag] * w)
                          => result.value[tag] = "sufficient"
                      /\ (c > 0 /\ 100 * c < ideal[tag] * w
                                /\ 200 * c >= ideal[tag] * w)
                          => result.value[tag] = "slightlyLacking"
                      /\ (c = 0 \/ 200 * c < ideal[tag] * w)
                          => result.value[tag] = "lacking"
            /\ meals = <<TagMeal(<<"healthy">>)>> =>
                  result.value = [healthy |-> "sufficient", high_protein |-> "lacking",
                                  veggie |-> "lacking", low_cal |-> "lacking"]

\* a history longer than the window whose oldest record, outside the window,
\* would change a status, and a tag that is slightly lacking
C5_Witness ==
    /\ result.op = "balance"
    /\ Len(meals) = 15
    /\ meals[1].tags = AllFourTags
    /\ Occurrences(meals, "tags", "veggie") = 3
    /\ result.value["veggie"] = "lacking"
    /\ result.value["healthy"] = "lacking"
    /\ result.value["low_cal"] = "slightlyLacking"

\* C6: missingCategories(recentDays) is the set of all-time categories minus
\* the categories of the records with timestamp >= now - recentDays: a
\* subset of the former, disjoint from the latter, leaving none out.
C6_MissingCategories ==
    result.op = "missing" =>
        LET stamp(m) == m.datetime[1] * DayTicks + m.datetime[2]
            cutoff == now - result.recent_days * DayTicks
            alltime == ValuesOf(meals, "categories")
            recent == {c \in alltime :
                          \E i \in 1..Len(meals) :
                              /\ stamp(meals[i]) >= cutoff
                              /\ \E j \in 1..Len(meals[i].categories) :
                                    meals[i].categories[j] = c}
        IN  /\ result.value \subseteq alltime
            /\ result.value \cap recent = {}
            /\ \A c \in alltime : c \notin recent => c \in result.value

\* a category eaten only before the window is missing while another, eaten
\* exactly at the cutoff, is not
C6_Witness ==
    /\ result.op = "missing"
    /\ result.recent_days = 1
    /\ result.value = {"yoshoku"}
    /\ \E i \in 1..Len(meals) :
          /\ fromisoformat(meals[i].datetime) = now - DayTicks
          /\ meals[i].categories = <<"washoku">>

\* C7: favoriteItems(limit) returns at most limit pairs with distinct items,
\* each with the item's number of occurrences, by non-increasing count, ties
\* in first-encountered order, no omitted item with a larger count than a
\* returned one; the counts sum to at most the number of occurrences; empty
\* input gives the empty sequence.
C7_FavoriteItems ==
    result.op = "favorite" =>
        LET r == result.value
            all == Extend(meals, "menu_items", 1)
            first(x) == CHOOSE i \in 1..Len(all) :
                            all[i] = x /\ \A j \in 1..(i - 1) : all[j] # x
            sum[k \in 0..Len(r)] == IF k = 0 THEN 0 ELSE sum[k - 1] + r[k][2]
        IN  /\ Len(r) <= result.limit
            /\ \A i, j \in 1..Len(r) : i # j => r[i][1] # r[j][1]
            /\ \A i \in 1..Len(r) :
                  /\ r[i][1] \in ValuesOf(meals, "menu_items")
                  /\ r[i][2] = Occurrences(meals, "menu_items", r[i][1])
            /\ \A i, j \in 1..Len(r) :
                  i < j => \/ r[i][2] > r[j][2]
                           \/ r[i][2] = r[j][2] /\ first(r[i][1]) < first(r[j][1])
            /\ \A x \in ValuesOf(meals, "menu_items") :
                  (\A i \in 1..Len(r) : r[i][1] # x) =>
                      \A i \in 1..Len(r) :
                          Occurrences(meals, "menu_items", x) <= r[i][2]
            /\ sum[Len(r)] <= Cardinality(Places(meals, "menu_items"))
            /\ meals = <<>> => r = <<>>

\* two items tie and the limit cuts the list
C7_Witness ==
    /\ result.op = "favorite"
    /\ result.limit = 2
    /\ result.value = <<<<"pasta", 2>>, <<"gohan", 1>>>>
    /\ Occurrences(meals, "menu_items", "ramen") = 1
    /\ meals[1].menu_items = <<"gohan">>

\* C8: varietyScore is unique / total over all menu items and lies in
\* [0, 1]; 0.0 for an empty history and for records without items; 1.0
\* exactly when the items are pairwise distinct and there is one; 1/N for N
\* occurrences of one item.
C8_VarietyScore ==
    result.op = "variety" =>
        LET p == result.value[1]
            q == result.value[2]
            total == Cardinality(Places(meals, "menu_items"))
            unique == Cardinality(ValuesOf(meals, "menu_items"))
        IN  /\ q > 0
            /\ 0 <= p /\ p <= q
            /\ total = 0 => p = 0
            /\ total > 0 => p * total = unique * q
            /\ p = q <=> (total > 0 /\ unique = total)
            /\ (total > 0 /\ unique = 1) => p * total = q

\* a history with a repeated item, scored below 1
C8_Witness ==
    /\ result.op = "variety"
    /\ result.value = <<2, 4>>
    /\ Len(meals) = 2


(***************************************************************************)
(* recommender.py: MealRecommender.  A method that draws at random is the  *)
(* set of the values it can return.                                        *)
(***************************************************************************)
MENU_DATABASE ==
    [washoku |-> <<"yakizakana", "misoshiru", "natto", "gohan", "nimono",
                   "sashimi", "tempura", "sukiyaki", "ochazuke", "onigiri",
                   "soba", "udon">>,
     yoshoku |-> <<"pasta", "pizza", "hamburg", "steak", "salad", "pan",
                   "omurice", "gratin", "stew", "roast_chicken">>,
     chuka |-> <<"chahan", "mabo_dofu", "gyoza", "ramen", "subuta",
                 "ebi_chili", "chinjao_rosu", "harumaki", "shoronpo",
                 "chaofan">>,
     italian |-> <<"carbonara", "peperoncino", "risotto", "caprese",
                   "minestrone", "lasagna">>,
     ethnic |-> <<"curry", "thai_curry", "pho", "gapao_rice", "tom_yum_kung",
                  "pad_thai", "nasi_goreng">>]

\* k draws that may hit the same place twice
SampleWithRepeats(xs, k) ==
    {[i \in 1..k |-> xs[f[i]]] : f \in [1..k -> 1..Len(xs)]}

\* random.sample(xs, k): k different places of xs, in any order
Sample(xs, k) ==
    {[i \in 1..k |-> xs[f[i]]] :
        f \in {g \in [1..k -> 1..Len(xs)] :
                  \A i, j \in 1..k : i # j => g[i] # g[j]}}

MealRecommendation(items, cats, reason, balance, confidence) ==
    [recommended_items |-> items, categories |-> cats, reason |-> reason,
     nutritional_balance |-> balance, confidence_score |-> confidence]

\* the steps with their upper ends included: five records still give 0.5
_calculate_confidence_score_inclusive(ms) ==
    LET meal_count == Len(ms)
    IN  IF meal_count = 0 THEN 30
        ELSE IF meal_count <= 5 THEN 50
        ELSE IF meal_count <= 10 THEN 70
        ELSE IF meal_count <= 20 THEN 85
        ELSE 95

\* a confidence is kept in hundredths: 30 is 0.3
_calculate_confidence_score(ms) ==
    LET meal_count == Len(ms)
    IN  IF meal_count = 0 THEN 30
        ELSE IF meal_count < 5 THEN 50
        ELSE IF meal_count < 10 THEN 70
        ELSE IF meal_count < 20 THEN 85
        ELSE 95

DefaultAdvice == [healthy |-> "more_vegetables", high_protein |-> "mind_protein"]

\* the default recommendation with items drawn with replacement
_generate_default_recommendation_repeats(meal_type) ==
    UNION {{MealRecommendation(items, <<category>>, <<"no_records">>,
                               DefaultAdvice, 30) :
               items \in SampleWithRepeats(MENU_DATABASE[category], 2)} :
              category \in DOMAIN MENU_DATABASE}

_generate_default_recommendation(meal_type) ==
    UNION {{MealRecommendation(items, <<category>>, <<"no_records">>,
                               DefaultAdvice, 30) :
               items \in Sample(MENU_DATABASE[category], 2)} :
              category \in DOMAIN MENU_DATABASE}

\* the category of the largest count instead of the smallest
_select_recommended_category_most(category_dist, missing_categories) ==
    IF missing_categories # {} THEN missing_categories
    ELSE IF category_dist # <<>>
    THEN {SortedByCount(category_dist)[1][1]}
    ELSE DOMAIN MENU_DATABASE

\* sorted(category_dist.items(), key=count)[0][0]: the sort is stable, so it
\* is the first key, in insertion order, of the smallest count
_select_recommended_category(category_dist, missing_categories) ==
    IF missing_categories # {} THEN missing_categories
    ELSE IF category_dist # <<>>
    THEN LET n == Len(category_dist)
             i == CHOOSE i \in 1..n :
                     /\ \A j \in 1..n : category_dist[j][2] >= category_dist[i][2]
                     /\ \A j \in 1..(i - 1) : category_dist[j][2] > category_dist[i][2]
         IN  {category_dist[i][1]}
    ELSE DOMAIN MENU_DATABASE

RecentItemWindow == 10
MaxRecommended == 3

\* the selection that looks at the items of the whole history
_select_menu_items_all(ms, category, favorite_items) ==
    LET available_items == IF category \in DOMAIN MENU_DATABASE
                           THEN MENU_DATABASE[category] ELSE <<>>
    IN  IF available_items = <<>>
        THEN IF favorite_items # <<>>
             THEN {[i \in 1..Min(MaxRecommended, Len(favorite_items)) |->
                      favorite_items[i][1]]}
             ELSE {<<"osusume_menu">>}
        ELSE LET recent_items ==
                    UNION {{ms[i].menu_items[j] : j \in 1..Len(ms[i].menu_items)} :
                              i \in 1..Len(ms)}
                 unused_items == SelectSeq(available_items,
                                           LAMBDA item : item \notin recent_items)
             IN  IF unused_items # <<>>
                 THEN Sample(unused_items, Min(MaxRecommended, Len(unused_items)))
                 ELSE Sample(available_items,
                             Min(MaxRecommended, Len(available_items)))

_select_menu_items(ms, category, favorite_items) ==
    LET available_items == IF category \in DOMAIN MENU_DATABASE
                           THEN MENU_DATABASE[category] ELSE <<>>
    IN  IF available_items = <<>>
        THEN IF favorite_items # <<>>
             THEN {[i \in 1..Min(MaxRecommended, Len(favorite_items)) |->
                      favorite_items[i][1]]}
             ELSE {<<"osusume_menu">>}
        ELSE LET recent == LastMeals(ms, RecentItemWindow)
                 recent_items ==
                    UNION {{recent[i].menu_items[j] : j \in 1..Len(recent[i].menu_items)} :
                              i \in 1..Len(recent)}
                 unused_items == SelectSeq(available_items,
                                           LAMBDA item : item \notin recent_items)
             IN  IF unused_items # <<>>
                 THEN Sample(unused_items, Min(MaxRecommended, Len(unused_items)))
                 ELSE Sample(available_items,
                             Min(MaxRecommended, Len(available_items)))

\* the sentences of the reason: the category was missing, the set of lacking
\* tags, or the sentence about variety when neither applies
_generate_reason(category, missing_categories, nutrition_balance) ==
    LET lacking == {k \in DOMAIN nutrition_balance : nutrition_balance[k] = "lacking"}
    IN  (IF category \in missing_categories THEN <<"not_eaten_recently">> ELSE <<>>)
            \o (IF lacking # {} THEN <<"running_low">> ELSE <<>>)
            \o (IF category \notin missing_categories /\ lacking = {}
                THEN <<"variety">> ELSE <<>>)

_generate_nutritional_advice(nutrition_balance) ==
    [nutrient \in DOMAIN nutrition_balance |->
        IF nutrition_balance[nutrient] = "lacking" THEN "increase"
        ELSE IF nutrition_balance[nutrient] = "slightlyLacking" THEN "be_mindful"
        ELSE "adequate"]

DefaultLimit == 10
DefaultRecentDays == 7

recommend_next_meal(ms, t, meal_type) ==
    IF ms = <<>> THEN _generate_default_recommendation(meal_type)
    ELSE LET favorite_items == get_favorite_items(ms, DefaultLimit)
             category_dist == get_category_distribution(ms)
             missing_categories == get_missing_categories(ms, t, DefaultRecentDays)
             nutrition_balance == get_nutrition_balance_status(ms)
         IN  UNION {{MealRecommendation(
                        items, <<category>>,
                        _generate_reason(category, missing_categories,
                                         nutrition_balance),
                        _generate_nutritional_advice(nutrition_balance),
                        _calculate_confidence_score(ms)) :
                       items \in _select_menu_items(ms, category, favorite_items)} :
                      category \in _select_recommended_category(
                                      category_dist, missing_categories)}

(***************************************************************************)
(* The recommender applied to bounded histories, ten days into the clock:  *)
(* a record is ten days old or of the last tick.                           *)
(***************************************************************************)
MaxRecHistory == 2

RecNow == timedelta(10)

RecMeal(t, cats, items) ==
    Meal(1, isoformat(t), "dinner", items, cats, <<"healthy">>, None, None)

RecMeals ==
    {RecMeal(0, <<"italian">>, <<"carbonara">>),
     RecMeal(RecNow - 1, <<"italian">>,
             <<"carbonara", "peperoncino", "risotto", "caprese", "minestrone">>),
     RecMeal(RecNow - 1, <<"ethnic", "italian">>, MENU_DATABASE["italian"]),
     RecMeal(RecNow - 1, <<"ethnic">>, <<"curry">>),
     RecMeal(0, <<"homemade">>, <<"nabe", "gohan", "nabe">>),
     RecMeal(RecNow - 1, <<>>, <<"gohan">>)}

MealTypes == {"breakfast", "lunch", "dinner"}

RecommendNextMeal(meal_type) ==
    /\ result.op = "none"
    /\ \E r \in recommend_next_meal(meals, now, meal_type) :
          Apply([op |-> "recommend", meal_type |-> meal_type, value |-> r])

RecommenderNext == \E meal_type \in MealTypes : RecommendNextMeal(meal_type)

SpecRecommender ==
    InitAnalyzer(Histories(RecMeals, MaxRecHistory), {RecNow})
        /\ [][RecommenderNext]_vars

(***************************************************************************)
(* The recommender applied to long histories: one record of any kind, then *)
(* records of one italian dish that is not in the catalog, so that the     *)
(* first record leaves the window of the last ten.                         *)
(***************************************************************************)
MaxLongHistory == 11

FirstMeals ==
    RecMeals \cup {RecMeal(RecNow - 1, <<"italian">>, MENU_DATABASE["italian"]),
                   RecMeal(0, <<"homemade">>, <<>>)}

PlainMeal == RecMeal(RecNow - 1, <<"italian">>, <<"gohan">>)

AddPlainMeal ==
    /\ result.op = "none"
    /\ Len(meals) >= 1
    /\ Len(meals) < MaxLongHistory
    /\ meals' = Append(meals, PlainMeal)
    /\ UNCHANGED <<file, pc, out, ret, issued, now, result>>

MenuItemsNext ==
    \/ AddPlainMeal
    \/ \E meal_type \in MealTypes : RecommendNextMeal(meal_type)

SpecMenuItems ==
    InitAnalyzer(Histories(FirstMeals, 1), {RecNow}) /\ [][MenuItemsNext]_vars

(***************************************************************************)
(* The recommender asked after every record added: none or one record of   *)
(* any kind, then records of one old home-made meal, up to the last step   *)
(* of the confidence.  result is the recommendation for the history as it  *)
(* stands.                                                                 *)
(***************************************************************************)
MaxConfHistory == 21

ConfMeal == RecMeal(0, <<"homemade">>, <<"nabe", "gohan", "nabe">>)

Recommended(ms, meal_type) ==
    \E r \in recommend_next_meal(ms, RecNow, meal_type) :
        result = [op |-> "recommend", meal_type |-> meal_type, value |-> r]

InitConfidence ==
    /\ meals \in Histories(RecMeals, 1)
    /\ Recommended(meals, "lunch")
    /\ now = RecNow
    /\ file = EmptyFile
    /\ pc = "menu"
    /\ out = "none"
    /\ ret = NoRet
    /\ issued = {}

AddAndRecommend(meal_type) ==
    /\ Len(meals) < MaxConfHistory
    /\ meals' = Append(meals, ConfMeal)
    /\ \E r \in recommend_next_meal(meals', now, meal_type) :
          result' = [op |-> "recommend", meal_type |-> meal_type, value |-> r]
    /\ UNCHANGED <<file, pc, out, ret, issued, now>>

ConfidenceNext == \E meal_type \in MealTypes : AddAndRecommend(meal_type)

SpecConfidence == InitConfidence /\ [][ConfidenceNext]_vars

(***************************************************************************)
(* Claims about the recommender.                                           *)
(***************************************************************************)
Range(xs) == {xs[i] : i \in 1..Len(xs)}

\* C9: with an empty history recommendNextMeal returns, for any meal type,
\* confidence exactly 0.3, exactly one category, one of the five of the
\* catalog, and exactly two distinct items of that category's list.
C9_DefaultRecommendation ==
    (result.op = "recommend" /\ meals = <<>>) =>
        LET r == result.value
        IN  /\ r.confidence_score = 30
            /\ Len(r.categories) = 1
            /\ r.categories[1] \in
                  {"washoku", "yoshoku", "chuka", "italian", "ethnic"}
            /\ Cardinality(DOMAIN MENU_DATABASE) = 5
            /\ Len(r.recommended_items) = 2
            /\ r.recommended_items[1] # r.recommended_items[2]
            /\ Range(r.recommended_items)
                  \subseteq Range(MENU_DATABASE[r.categories[1]])

\* a default recommendation for breakfast out of the shortest list
C9_Witness ==
    /\ result.op = "recommend"
    /\ meals = <<>>
    /\ result.meal_type = "breakfast"
    /\ result.value.categories = <<"italian">>
    /\ result.value.recommended_items = <<"lasagna", "carbonara">>

\* C10: with a non-empty history the one category returned is a missing
\* category (7 days) if there is one; otherwise, if some record has a
\* category, a category of minimum total count; otherwise one of the five
\* catalog categories.
C10_CategoryPriority ==
    (result.op = "recommend" /\ meals # <<>>) =>
        LET cat == result.value.categories[1]
            alltime == ValuesOf(meals, "categories")
            recent == {c \in alltime :
                          \E i \in 1..Len(meals) :
                              /\ meals[i].datetime[1] * DayTicks + meals[i].datetime[2]
                                     >= now - 7 * DayTicks
                              /\ c \in Range(meals[i].categories)}
            missing == alltime \ recent
        IN  /\ Len(result.value.categories) = 1
            /\ missing # {} => cat \in missing
            /\ (missing = {} /\ alltime # {}) =>
                  /\ cat \in alltime
                  /\ \A c \in alltime :
                        Occurrences(meals, "categories", c)
                            >= Occurrences(meals, "categories", cat)
            /\ alltime = {} =>
                  cat \in {"washoku", "yoshoku", "chuka", "italian", "ethnic"}

\* nothing is missing and the category of the smaller count is returned
C10_Witness ==
    /\ result.op = "recommend"
    /\ Len(meals) = 2
    /\ get_missing_categories(meals, now, 7) = {}
    /\ Occurrences(meals, "categories", "italian") = 2
    /\ Occurrences(meals, "categories", "ethnic") = 1
    /\ result.value.categories = <<"ethnic">>

C12_ConfidenceSteps ==
    /\ [](result.op = "recommend" =>
            LET n == Len(meals)
                score == result.value.confidence_score
            IN  /\ n = 0 => score = 30
                /\ (1 <= n /\ n < 5) => score = 50
                /\ (5 <= n /\ n < 10) => score = 70
                /\ (10 <= n /\ n < 20) => score = 85
                /\ n >= 20 => score = 95
                /\ 0 <= score /\ score <= 100)
    /\ [][(\E m \in {ConfMeal} : meals' = Append(meals, m)) =>
             result'.value.confidence_score >= result.value.confidence_score]_vars

\* the twentieth record has raised the confidence to 0.95
C12_Witness ==
    /\ result.op = "recommend"
    /\ Len(meals) = 20
    /\ result.value.confidence_score = 95

(***************************************************************************)
(* Claims about update and delete of the store.                            *)
(***************************************************************************)
\* the persisted records with every record of the id of meal replaced by it
Replaced(meal) ==
    [i \in 1..Len(Persisted) |->
        IF Persisted[i].id = meal.id THEN meal ELSE Persisted[i]]

\* the persisted records without those of the id, in order
Without(meal_id) == SelectSeq(Persisted, LAMBDA m : m.id # meal_id)

HasId(meal_id) == \E i \in 1..Len(Persisted) : Persisted[i].id = meal_id

\* A step of update_meal records its record and the way its write ended in
\* ret, a step of delete_meal the way its write ended: the calls a step may
\* be are looked for among those.
\*
\* C13 as stated: update(record) replaces every stored record of record.id
\* and leaves the others, their order and the count unchanged; delete(id)
\* removes exactly the records of that id and keeps the others in order;
\* when no stored record has the id both return True and the persisted
\* sequence is unchanged.
C13_UpdateDeleteFrame ==
    [][/\ ret'.op = "update" =>
            \A meal \in {ret'.meal[1]} :
                UpdateMeal(meal, ret'.outcome) =>
                    /\ Persisted' = Replaced(meal)
                    /\ Len(Persisted') = Len(Persisted)
                    /\ ~HasId(meal.id) =>
                          (ret'.value = "True" /\ Persisted' = Persisted)
       /\ ret'.op = "delete" =>
            \A meal_id \in Ids :
                DeleteMeal(meal_id, ret'.outcome) =>
                    /\ Persisted' = Without(meal_id)
                    /\ ~HasId(meal_id) =>
                          (ret'.value = "True" /\ Persisted' = Persisted)]_vars

\* C13, amended: an update or delete whose write completes returns True and
\* has exactly that effect, also when no stored record has the id (nothing
\* changes, update never inserts); one whose open fails returns False and
\* leaves the file as it was; one whose write fails after the open returns
\* False and leaves the file cut off, so that no record is persisted.
C13_FrameWhenWritten ==
    [][/\ ret'.op = "update" =>
            \A meal \in {ret'.meal[1]} :
                UpdateMeal(meal, ret'.outcome) =>
                    /\ ret'.outcome = "ok" =>
                          /\ ret'.value = "True"
                          /\ Persisted' = Replaced(meal)
                          /\ Len(Persisted') = Len(Persisted)
                          /\ ~HasId(meal.id) => Persisted' = Persisted
                    /\ ret'.outcome = "open_failed" =>
                          (ret'.value = "False" /\ file' = file)
                    /\ ret'.outcome = "partial" =>
                          (ret'.value = "False" /\ Persisted' = <<>>)
       /\ ret'.op = "delete" =>
            \A meal_id \in Ids :
                DeleteMeal(meal_id, ret'.outcome) =>
                    /\ ret'.outcome = "ok" =>
                          /\ ret'.value = "True"
                          /\ Persisted' = Without(meal_id)
                          /\ ~HasId(meal_id) => Persisted' = Persisted
                    /\ ret'.outcome = "open_failed" =>
                          (ret'.value = "False" /\ file' = file)
                    /\ ret'.outcome = "partial" =>
                          (ret'.value = "False" /\ Persisted' = <<>>)]_vars

\* an update has replaced the first of two records and kept the second
C13_Witness ==
    /\ ret.op = "update"
    /\ ret.value = "True"
    /\ Len(Persisted) = 2
    /\ Persisted[1] = ret.meal[1]
    /\ Persisted[2].id # ret.meal[1].id
    /\ Persisted = ret.attempt

====
